---- MODULE Spec2Model ----
(***************************************************************************)
(* A model of ups/shipping_package.py (PyUPS): the element builders of     *)
(* ShipmentMixin, the three clients ShipmentConfirm, ShipmentAccept and    *)
(* ShipmentVoid, their request documents and their request operation.      *)
(*                                                                         *)
(* Elements are lxml elements.  An element is a record                     *)
(*     [tag, text, children]                                               *)
(* A text is a sequence of symbols; a symbol is one character, or, for the *)
(* literals of the program whose spelling plays no part, an unbroken chunk *)
(* such as "ShipConfirm".  The empty sequence is the absent text.          *)
(***************************************************************************)
EXTENDS Integers, Sequences, FiniteSets

VARIABLES
    docs,      \* the request documents built so far and still held by the caller
    built,     \* the last builder call: its name, its input and its outcome
    call,      \* the request operation in progress (one client, one document)
    canned,    \* a confirm response given to the caller (NullNode: none)
    digest,    \* the last call of extract_digest: its response and its outcome
    known,     \* what the responses returned so far have told the caller
    threads    \* two threads that build and send with one client class

vars == <<docs, built, call, canned, digest, known, threads>>

-----------------------------------------------------------------------------
(* Bounds of the model                                                     *)

MaxDocs == 2          \* documents the caller holds at once
MaxNotKeyword == 2    \* fields of a builder call not supplied by keyword
MaxDigestLen == 4     \* symbols of a ShipmentDigest text
MaxTracking == 2      \* tracking ids given to void_shipment_request_type

-----------------------------------------------------------------------------
(* Elements                                                                *)

Node(tag, text, children) == [tag |-> tag, text |-> text, children |-> children]

Leaf(tag, text) == Node(tag, text, <<>>)

NullNode == Node("", <<>>, <<>>)

Range(s) == {s[i] : i \in DOMAIN s}

Tags(elements) == {elements[i].tag : i \in DOMAIN elements}

\* The value of a keyword argument: a text or an element.
TextVal(t) == [el |-> FALSE, text |-> t, node |-> NullNode]

ElemVal(n) == [el |-> TRUE, text |-> <<>>, node |-> n]

\* lxml.builder: E(tag, value) makes a new element named tag; a text value
\* becomes its text, an element value becomes its child.
E(tag, value) ==
    IF value.el THEN Node(tag, <<>>, <<value.node>>) ELSE Leaf(tag, value.text)

\* The outcome of a call: a returned value or a raised error.
Ok(v) == [error |-> "", field |-> "", value |-> v]

Raise(kind, field) == [error |-> kind, field |-> field, value |-> <<>>]

RECURSIVE Flatten(_)
Flatten(ss) == IF ss = <<>> THEN <<>> ELSE Head(ss) \o Flatten(Tail(ss))

\* etree.tostring: the element as a sequence of tokens, in document order.
RECURSIVE tostring(_)
tostring(e) ==
    IF e.text = <<>> /\ e.children = <<>>
    THEN << <<"empty", e.tag>> >>
    ELSE << <<"open", e.tag>> >>
         \o [i \in DOMAIN e.text |-> <<"text", e.text[i]>>]
         \o Flatten([i \in DOMAIN e.children |-> tostring(e.children[i])])
         \o << <<"close", e.tag>> >>

-----------------------------------------------------------------------------
(* BaseAPIClient.make_elements                                             *)

Keys(kwargs) == {kwargs[i][1] : i \in DOMAIN kwargs}

MissingAt(required, args, kwargs) ==
    {i \in DOMAIN required :
        required[i] \notin Keys(kwargs) /\ required[i] \notin Tags(args)}

FirstOf(S) == CHOOSE i \in S : \A j \in S : i <= j

\* The required names are looked for among the keywords and the tags of the
\* positional elements; the result is the positional elements followed by one
\* element per keyword.
make_elements(required, args, kwargs) ==
    LET missing == MissingAt(required, args, kwargs) IN
    IF missing # {}
    THEN Raise("MissingRequiredField", required[FirstOf(missing)])
    ELSE Ok(args \o [i \in DOMAIN kwargs |-> E(kwargs[i][1], kwargs[i][2])])

-----------------------------------------------------------------------------
(* The class-level template elements                                       *)

Classes == {"ShipmentConfirm", "ShipmentAccept", "ShipmentVoid"}

TemplateNames == <<"RequestAction", "RequestOption", "TransactionReference">>

RequestAction(cls) ==
    Leaf("RequestAction",
         CASE cls = "ShipmentConfirm" -> <<"ShipConfirm">>
           [] cls = "ShipmentAccept" -> <<"ShipAccept">>
           [] cls = "ShipmentVoid" -> <<"Void">>)

RequestOption(cls) ==
    Leaf("RequestOption",
         IF cls = "ShipmentVoid" THEN <<>> ELSE <<"nonvalidate">>)

TransactionReference(cls) ==
    Node("TransactionReference", <<>>,
         <<Leaf("CustomerContext", <<"unspecified">>)>>)

Template(cls, name) ==
    CASE name = "RequestAction" -> RequestAction(cls)
      [] name = "RequestOption" -> RequestOption(cls)
      [] name = "TransactionReference" -> TransactionReference(cls)

-----------------------------------------------------------------------------
(* Request documents                                                       *)
(* A document is [cls, root, request, rest]: the class that built it, the  *)
(* tag of its root, the template elements its Request element holds now    *)
(* (by name: they are the class's own objects, never copies), and the      *)
(* children of the root after Request.                                     *)

Doc(cls, root, request, rest) ==
    [cls |-> cls, root |-> root, request |-> request, rest |-> rest]

RequestElement(d) ==
    Node("Request", <<>>,
         [i \in DOMAIN d.request |-> Template(d.cls, d.request[i])])

DocTree(d) == Node(d.root, <<>>, <<RequestElement(d)>> \o d.rest)

\* lxml: an element has one parent.  Appending an element that has a parent
\* removes it from that parent.
Detach(ds, cls, name) ==
    [i \in DOMAIN ds |->
        IF ds[i].cls = cls
        THEN [ds[i] EXCEPT !.request = SelectSeq(@, LAMBDA t : t # name)]
        ELSE ds[i]]

RECURSIVE DetachAll(_, _, _)
DetachAll(ds, cls, names) ==
    IF names = <<>> THEN ds
    ELSE DetachAll(Detach(ds, cls, Head(names)), cls, Tail(names))

\* request = E.Request(cls.RequestAction, cls.RequestOption,
\*                     cls.TransactionReference)
\* The documents as they are once the new Request element holds the three
\* template elements of the class.
ERequest(ds, cls) == DetachAll(ds, cls, TemplateNames)

-----------------------------------------------------------------------------
(* ShipmentConfirm: the label builders and the request document            *)

Pair(key, value) == <<key, value>>

Without(kwargs, key) == SelectSeq(kwargs, LAMBDA p : p[1] # key)

ValueAt(kwargs, key) ==
    kwargs[CHOOSE i \in DOMAIN kwargs : kwargs[i][1] = key][2]

\* values = {'Code': 'GIF'}; values.update(kwargs)
LabelValues(kwargs) ==
    <<Pair("Code", IF "Code" \in Keys(kwargs) THEN ValueAt(kwargs, "Code")
                   ELSE TextVal(<<"GIF">>))>>
    \o Without(kwargs, "Code")

\* The body shared by label_print_method_type and label_image_format_type.
LabelCodeType(tag, args, kwargs) ==
    IF args # <<>> /\ Len(args) # 2 - Len(kwargs)
    THEN Raise("AssertionError", "")
    ELSE LET elements == make_elements(<<"Code">>, args, LabelValues(kwargs)) IN
         IF elements.error # "" THEN elements
         ELSE Ok(Node(tag, <<>>, elements.value))

label_print_method_type(args, kwargs) ==
    LabelCodeType("LabelPrintMethod", args, kwargs)

label_image_format_type(args, kwargs) ==
    LabelCodeType("LabelImageFormat", args, kwargs)

LabelSpecificationRequired == <<"LabelPrintMethod">>

label_specification_type(args, kwargs) ==
    LET elements == make_elements(LabelSpecificationRequired, args, kwargs) IN
    IF elements.error # "" THEN elements
    ELSE Ok(Node("LabelSpecification", <<>>, elements.value))

\* A variant of ConfirmRequired that leaves PaymentInformation out.
ConfirmRequired_NoPayment == <<"Shipper", "ShipTo", "ShipFrom", "Service">>

ConfirmRequired ==
    <<"Shipper", "ShipTo", "ShipFrom", "Service", "PaymentInformation">>

\* The result is [docs, outcome]: the documents after the call, and the
\* returned document (the last of docs) or the error raised.
shipment_confirm_request_type(ds, args, kwargs) ==
    LET ds1 == ERequest(ds, "ShipmentConfirm")
        given == "LabelSpecification" \in Keys(kwargs)
        label_specification ==
            IF ~given
            THEN label_specification_type(
                     <<label_print_method_type(<<>>, <<>>).value,
                       label_image_format_type(<<>>, <<>>).value>>, <<>>).value
            ELSE ValueAt(kwargs, "LabelSpecification").node
        elements ==
            make_elements(ConfirmRequired, args,
                          Without(kwargs, "LabelSpecification"))
        d == Doc("ShipmentConfirm", "ShipmentConfirmRequest", TemplateNames,
                 <<Node("Shipment", <<>>, elements.value), label_specification>>)
    IN  IF elements.error # ""
        THEN [docs |-> ds1, outcome |-> elements]
        ELSE [docs |-> Append(ds1, d), outcome |-> Ok(DocTree(d))]

-----------------------------------------------------------------------------
(* Digest values                                                           *)
(* A Python value as extract_digest returns it: a str with its text, or a  *)
(* number (int, float, bool) with its value num * 10^exp.                  *)

StrVal(t) == [type |-> "str", text |-> t, num |-> 0, exp |-> 0]

NumVal(type, n, e) == [type |-> type, text |-> <<>>, num |-> n, exp |-> e]

-----------------------------------------------------------------------------
(* ShipmentAccept and ShipmentVoid: the request documents                  *)

\* lxml.builder: E.ShipmentDigest(value) takes a str as the text of the new
\* element; a value of another type has no entry in the typemap.
shipment_accept_request_type(ds, dg) ==
    LET ds1 == ERequest(ds, "ShipmentAccept")
        d == Doc("ShipmentAccept", "ShipmentAcceptRequest", TemplateNames,
                 <<Leaf("ShipmentDigest", dg.text)>>)
    IN  IF dg.type # "str"
        THEN [docs |-> ds1, outcome |-> Raise("TypeError", "ShipmentDigest")]
        ELSE [docs |-> Append(ds1, d), outcome |-> Ok(DocTree(d))]

\* A variant of void_shipment_request_type that puts the shipment id after
\* the tracking numbers.
void_shipment_request_type_IdLast(ds, shipment_id, tracking_ids) ==
    LET ds1 == ERequest(ds, "ShipmentVoid")
        expanded_void_shipment ==
            [i \in DOMAIN tracking_ids |->
                    Leaf("TrackingNumber", tracking_ids[i])]
            \o <<Leaf("ShipmentIdentificationNumber", shipment_id)>>
        d == Doc("ShipmentVoid", "VoidShipmentRequest", TemplateNames,
                 <<Node("ExpandedVoidShipment", <<>>, expanded_void_shipment)>>)
    IN  [docs |-> Append(ds1, d), outcome |-> Ok(DocTree(d))]

void_shipment_request_type(ds, shipment_id, tracking_ids) ==
    LET ds1 == ERequest(ds, "ShipmentVoid")
        expanded_void_shipment ==
            <<Leaf("ShipmentIdentificationNumber", shipment_id)>>
            \o [i \in DOMAIN tracking_ids |->
                    Leaf("TrackingNumber", tracking_ids[i])]
        d == Doc("ShipmentVoid", "VoidShipmentRequest", TemplateNames,
                 <<Node("ExpandedVoidShipment", <<>>, expanded_void_shipment)>>)
    IN  [docs |-> Append(ds1, d), outcome |-> Ok(DocTree(d))]

-----------------------------------------------------------------------------
(* The request operation of the three clients                              *)

XmlDeclaration == <<"<?xml version=\"1.0\" encoding=\"UTF-8\" ?>">>

\* BaseAPIClient.access_request: the credentials document of the client.
AccessRequest ==
    Node("AccessRequest", <<>>,
         <<Leaf("AccessLicenseNumber", <<"license_no">>),
           Leaf("UserId", <<"user_id">>),
           Leaf("Password", <<"password">>)>>)

\* BaseAPIClient.base_url: the two base endpoints.
base_url(key) == IF key = "sandbox" THEN "sandbox-base" ELSE "production-base"

UrlSuffix(cls) ==
    CASE cls = "ShipmentConfirm" -> "ShipConfirm"
      [] cls = "ShipmentAccept" -> "ShipAccept"
      [] cls = "ShipmentVoid" -> "Void"

\* A variant of url that takes the production endpoint for a sandbox client.
url_SandboxInverted(cls, sandbox) ==
    <<base_url(IF sandbox THEN "production" ELSE "sandbox"), UrlSuffix(cls)>>

\* '/'.join([self.base_url[self.sandbox and 'sandbox' or 'production'], suffix]):
\* the parts the '/' joins.
url(cls, sandbox) ==
    <<base_url(IF sandbox THEN "sandbox" ELSE "production"), UrlSuffix(cls)>>

\* A variant of FullRequest that puts the business document first.
FullRequest_BusinessFirst(access_request, request_document) ==
    <<XmlDeclaration, tostring(request_document),
      XmlDeclaration, tostring(access_request)>>

\* '\n'.join([...]): the parts the newline joins.
FullRequest(access_request, request_document) ==
    <<XmlDeclaration, tostring(access_request),
      XmlDeclaration, tostring(request_document)>>

\* What send_request returns: the bytes of a document, or bytes that are none.
Received(tree) == [wellformed |-> TRUE, tree |-> tree]

Garbage == [wellformed |-> FALSE, tree |-> NullNode]

ResponseRoot(cls) ==
    CASE cls = "ShipmentConfirm" -> "ShipmentConfirmResponse"
      [] cls = "ShipmentAccept" -> "ShipmentAcceptResponse"
      [] cls = "ShipmentVoid" -> "VoidShipmentResponse"

OkResponse(cls, more) ==
    Node(ResponseRoot(cls), <<>>,
         <<Node("Response", <<>>, <<Leaf("ResponseStatusCode", <<"1">>)>>)>>
         \o more)

ErrorResponse(cls) ==
    Node(ResponseRoot(cls), <<>>,
         <<Node("Response", <<>>,
                <<Leaf("ResponseStatusCode", <<"0">>),
                  Node("Error", <<>>,
                       <<Leaf("ErrorDescription", <<"fault">>)>>)>>)>>)

ConfirmResponse(text) ==
    OkResponse("ShipmentConfirm", <<Leaf("ShipmentDigest", text)>>)

\* The answer to an accept request: the shipment id and the tracking
\* numbers of its packages.
AcceptResponse(shipment_id, tracking_ids) ==
    OkResponse("ShipmentAccept",
        <<Node("ShipmentResults", <<>>,
               <<Leaf("ShipmentIdentificationNumber", shipment_id)>>
               \o [i \in DOMAIN tracking_ids |->
                      Node("PackageResults", <<>>,
                           <<Leaf("TrackingNumber", tracking_ids[i])>>)])>>)

Children(e, tag) == SelectSeq(e.children, LAMBDA c : c.tag = tag)

\* BaseAPIClient.look_for_error: the response holds an Error node.
HasErrorNode(response) ==
    \E i \in DOMAIN response.children :
        /\ response.children[i].tag = "Response"
        /\ Children(response.children[i], "Error") # <<>>

NoReturn == [pair |-> FALSE, request |-> <<>>, response |-> NullNode]

NoError == [kind |-> "", request |-> <<>>, response |-> NullNode]

\* A variant of HandleResult that does not look for an error.
HandleResult_ErrorSwallowed(return_xml, full_request, result) ==
    IF ~result.wellformed
    THEN [error |-> [kind |-> "XMLSyntaxError", request |-> <<>>,
                     response |-> NullNode],
          ret |-> NoReturn]
    ELSE [error |-> NoError,
          ret |-> IF return_xml
                  THEN [pair |-> TRUE, request |-> full_request,
                        response |-> result.tree]
                  ELSE [pair |-> FALSE, request |-> <<>>,
                        response |-> result.tree]]

\* A variant of HandleResult that returns the response alone, whatever
\* return_xml is.
HandleResult_NeverPair(return_xml, full_request, result) ==
    IF ~result.wellformed
    THEN [error |-> [kind |-> "XMLSyntaxError", request |-> <<>>,
                     response |-> NullNode],
          ret |-> NoReturn]
    ELSE IF HasErrorNode(result.tree)
    THEN [error |-> [kind |-> "CarrierError", request |-> full_request,
                     response |-> result.tree],
          ret |-> NoReturn]
    ELSE [error |-> NoError,
          ret |-> [pair |-> FALSE, request |-> <<>>, response |-> result.tree]]

\* response = objectify.fromstring(result)
\* self.look_for_error(response, full_request)
\* return (full_request, response) if self.return_xml else response
HandleResult(return_xml, full_request, result) ==
    IF ~result.wellformed
    THEN [error |-> [kind |-> "XMLSyntaxError", request |-> <<>>,
                     response |-> NullNode],
          ret |-> NoReturn]
    ELSE IF HasErrorNode(result.tree)
    THEN [error |-> [kind |-> "CarrierError", request |-> full_request,
                     response |-> result.tree],
          ret |-> NoReturn]
    ELSE [error |-> NoError,
          ret |-> IF return_xml
                  THEN [pair |-> TRUE, request |-> full_request,
                        response |-> result.tree]
                  ELSE [pair |-> FALSE, request |-> <<>>,
                        response |-> result.tree]]

IdleCall ==
    [pc |-> "idle", cls |-> "", sandbox |-> FALSE, return_xml |-> FALSE,
     document |-> NullNode, full_request |-> <<>>, sends |-> 0,
     sent_url |-> <<>>, sent_body |-> <<>>, result |-> Garbage,
     error |-> NoError, ret |-> NoReturn]

AtRest == call.pc \in {"idle", "returned", "raised"}

\* Neither thread has started.
NoThreads ==
    [t \in {1, 2} |->
        [pc |-> "idle", doc |-> 0, returned |-> NullNode, body |-> <<>>]]

\* The responses that request has returned to the caller, by client class:
\* a record of the past, kept where the order of the exchanges is examined.
NothingKnown == [c \in Classes |-> {}]

Learn(k, cls, response) == [k EXCEPT ![cls] = @ \cup {response}]

\* request(self, document), up to the call of send_request: the client is
\* a cls constructed with the flags sandbox and return_xml.
Request(cls, sandbox, return_xml, i) ==
    /\ AtRest
    /\ i \in DOMAIN docs
    /\ call' = [IdleCall EXCEPT
                    !.pc = "send", !.cls = cls, !.sandbox = sandbox,
                    !.return_xml = return_xml,
                    !.document = DocTree(docs[i]),
                    !.full_request = FullRequest(AccessRequest, DocTree(docs[i]))]
    /\ UNCHANGED <<docs, built, canned, digest, known, threads>>

\* result = self.send_request(self.url, full_request)
SendRequest(result) ==
    /\ call.pc = "send"
    /\ call' = [call EXCEPT
                    !.pc = "receive", !.sends = @ + 1,
                    !.sent_url = url(call.cls, call.sandbox),
                    !.sent_body = call.full_request,
                    !.result = result]
    /\ UNCHANGED <<docs, built, canned, digest, known, threads>>

\* A variant of HandleResponse that sends the request again when the
\* carrier answers with an error.
HandleResponse_RetryOnError ==
    /\ call.pc = "receive"
    /\ LET r == HandleResult(call.return_xml, call.full_request, call.result) IN
       call' = [call EXCEPT
                    !.pc = IF r.error.kind = "" THEN "returned"
                           ELSE IF r.error.kind = "CarrierError" THEN "send"
                           ELSE "raised",
                    !.error = r.error, !.ret = r.ret]
    /\ UNCHANGED <<docs, built, canned, digest, threads>>

\* The rest of request: parse, look for an error, return.
HandleResponse ==
    /\ call.pc = "receive"
    /\ LET r == HandleResult(call.return_xml, call.full_request, call.result) IN
       call' = [call EXCEPT
                    !.pc = IF r.error.kind = "" THEN "returned" ELSE "raised",
                    !.error = r.error, !.ret = r.ret]
    /\ UNCHANGED <<docs, built, canned, digest, threads>>

-----------------------------------------------------------------------------
(* ShipmentConfirm.extract_digest                                          *)

Symbols == {"0", "1", "5", "a", "e", "r", "t", "u"}

Digits == {"0", "1", "5"}

DigitValue(c) == CASE c = "0" -> 0 [] c = "1" -> 1 [] c = "5" -> 5

IsDigits(t) == t # <<>> /\ \A i \in DOMAIN t : t[i] \in Digits

RECURSIVE IntOf(_)
IntOf(t) ==
    IF t = <<>> THEN 0
    ELSE 10 * IntOf(SubSeq(t, 1, Len(t) - 1)) + DigitValue(t[Len(t)])

\* The places of an exponent sign with digits on both sides: <mantissa>e<exponent>.
ExponentAt(t) ==
    {k \in DOMAIN t :
        /\ t[k] = "e"
        /\ IsDigits(SubSeq(t, 1, k - 1))
        /\ IsDigits(SubSeq(t, k + 1, Len(t)))}

\* lxml.objectify: the Python value of a leaf is found by trying the types
\* int, float, bool in this order on its text; str is what is left.
pyval(t) ==
    IF IsDigits(t) THEN NumVal("int", IntOf(t), 0)
    ELSE IF ExponentAt(t) # {}
    THEN LET k == CHOOSE k \in ExponentAt(t) : TRUE IN
         NumVal("float", IntOf(SubSeq(t, 1, k - 1)),
                         IntOf(SubSeq(t, k + 1, Len(t))))
    ELSE IF t = <<"t", "r", "u", "e">> THEN NumVal("bool", 1, 0)
    ELSE StrVal(t)

\* return response.ShipmentDigest.pyval
extract_digest(response) ==
    LET found == Children(response, "ShipmentDigest") IN
    IF found = <<>> THEN Raise("AttributeError", "ShipmentDigest")
    ELSE Ok(pyval(found[1].text))

NoDigest == [state |-> "none", of |-> NullNode, error |-> "", value |-> StrVal(<<>>)]

\* The caller extracts the digest of a response it holds.
ExtractDigest(response) ==
    /\ AtRest
    /\ response # NullNode
    /\ LET r == extract_digest(response) IN
       digest' = IF r.error # ""
                 THEN [state |-> "raised", of |-> response, error |-> r.error,
                       value |-> StrVal(<<>>)]
                 ELSE [state |-> "value", of |-> response, error |-> "",
                       value |-> r.value]
    /\ UNCHANGED <<docs, built, call, canned, known, threads>>

-----------------------------------------------------------------------------
(* The builders of request documents, as calls                             *)

NoCall ==
    [op |-> "", args |-> <<>>, kwargs |-> <<>>, error |-> "", field |-> "",
     result |-> NullNode, warned |-> FALSE]

Called(op, args, kwargs, outcome) ==
    [op |-> op, args |-> args, kwargs |-> kwargs, error |-> outcome.error,
     field |-> outcome.field,
     result |-> IF outcome.error = "" THEN outcome.value ELSE NullNode,
     warned |-> FALSE]

ShipmentConfirmRequestType(args, kwargs) ==
    /\ AtRest
    /\ Len(docs) < MaxDocs
    /\ LET r == shipment_confirm_request_type(docs, args, kwargs) IN
       /\ docs' = r.docs
       /\ built' = Called("shipment_confirm_request_type", args, kwargs, r.outcome)
    /\ UNCHANGED <<call, canned, digest, known, threads>>

ShipmentAcceptRequestType(dg) ==
    /\ AtRest
    /\ Len(docs) < MaxDocs
    /\ LET r == shipment_accept_request_type(docs, dg) IN
       /\ docs' = r.docs
       /\ built' = Called("shipment_accept_request_type", <<dg>>, <<>>, r.outcome)
    /\ UNCHANGED <<call, canned, digest, known, threads>>

VoidShipmentRequestType(shipment_id, tracking_ids) ==
    /\ AtRest
    /\ Len(docs) < MaxDocs
    /\ LET r == void_shipment_request_type(docs, shipment_id, tracking_ids) IN
       /\ docs' = r.docs
       /\ built' = Called("void_shipment_request_type",
                          <<shipment_id, tracking_ids>>, <<>>, r.outcome)
    /\ UNCHANGED <<call, canned, digest, known, threads>>

-----------------------------------------------------------------------------
(* The inputs of the calls                                                 *)

ElementFields ==
    {"Shipper", "ShipTo", "ShipFrom", "Service", "PaymentInformation",
     "ShipmentServiceOptions", "LabelSpecification", "Address", "PhoneNumber",
     "PackagingType", "PackageWeight", "Dimensions", "PackageServiceOptions",
     "InsuredValue", "LabelPrintMethod", "LabelImageFormat", "Prepaid"}

TextFields ==
    {"Name", "ShipperNumber", "AttentionName", "TaxIdentificationNumber",
     "FaxNumber", "EMailAddress", "LocationID", "CompanyName",
     "ResidentialAddressIndicator", "AddressLine1", "AddressLine2",
     "AddressLine3", "City", "StateProviceCode", "CountryCode", "Number",
     "Extension", "Description", "Code", "CurrencyCode", "MonetaryValue",
     "AccountNumber", "Length", "Width", "Height", "SaturdayDelivery"}

\* The text a caller gives for each field that takes a text.
DefaultTexts == [f \in TextFields |-> <<"v">>]

\* An element a caller built for the field f.
SampleElement(f, texts) ==
    IF f = "LabelSpecification"
    THEN Node(f, <<>>, <<Node("LabelPrintMethod", <<>>, <<Leaf("Code", <<"EPL">>)>>)>>)
    ELSE IF f \in ElementFields THEN Node(f, <<>>, <<Leaf("Code", <<"01">>)>>)
    ELSE Leaf(f, texts[f])

FieldValue(f, texts) ==
    IF f \in ElementFields THEN ElemVal(SampleElement(f, texts))
    ELSE TextVal(texts[f])

\* The call that gives the fields of kw by keyword and those of pos as
\* positional elements, both in the order of fields.
Input(fields, pos, kw, texts) ==
    [args |-> LET s == SelectSeq(fields, LAMBDA f : f \in pos) IN
              [i \in DOMAIN s |-> SampleElement(s[i], texts)],
     kwargs |-> LET s == SelectSeq(fields, LAMBDA f : f \in kw) IN
                [i \in DOMAIN s |-> Pair(s[i], FieldValue(s[i], texts))]]

AtMost(S, n) == {x \in SUBSET S : Cardinality(x) <= n}

\* Every call over fields in which at most MaxNotKeyword fields are omitted or
\* positional.
InputsWith(fields, texts) ==
    {Input(fields, po[1], Range(fields) \ (po[1] \cup po[2]), texts) :
        po \in {q \in AtMost(Range(fields), MaxNotKeyword)
                      \X AtMost(Range(fields), MaxNotKeyword) :
                   /\ q[1] \cap q[2] = {}
                   /\ Cardinality(q[1] \cup q[2]) <= MaxNotKeyword}}

Inputs(fields) == InputsWith(fields, DefaultTexts)

Supplied(c) == Keys(c.kwargs) \cup Tags(c.args)

-----------------------------------------------------------------------------
(* The two-phase exchange: build, request, extract the digest, build       *)

Init ==
    /\ docs = <<>>
    /\ built = NoCall
    /\ call = IdleCall
    /\ canned = NullNode
    /\ digest = NoDigest
    /\ known = NothingKnown
    /\ threads = NoThreads

FlowConfirmInputs ==
    {Input(ConfirmRequired, {}, Range(ConfirmRequired), DefaultTexts),
     Input(ConfirmRequired, {}, Range(ConfirmRequired) \ {"Shipper"},
           DefaultTexts)}

\* A digest the caller kept from an earlier exchange.
KeptDigest == StrVal(<<"a", "1">>)

FlowDigests ==
    {KeptDigest} \cup (IF digest.state = "value" THEN {digest.value} ELSE {})

FlowTracking == {<< <<"1Z1">> >>}

ServerResults(cls) ==
    {Garbage, Received(ErrorResponse(cls))}
    \cup (IF cls = "ShipmentConfirm"
          THEN {Received(ConfirmResponse(t)) : t \in {<<"a", "1">>, <<"0", "1">>}}
          ELSE IF cls = "ShipmentAccept"
          THEN {Received(AcceptResponse(<<"1Z">>, t)) : t \in FlowTracking}
          ELSE {Received(OkResponse(cls, <<>>))})

Next ==
    \/ \E c \in FlowConfirmInputs : ShipmentConfirmRequestType(c.args, c.kwargs)
    \/ \E dg \in FlowDigests : ShipmentAcceptRequestType(dg)
    \/ \E t \in FlowTracking : VoidShipmentRequestType(<<"1Z">>, t)
    \/ \E cls \in Classes, sandbox \in BOOLEAN, return_xml \in BOOLEAN,
          i \in DOMAIN docs : Request(cls, sandbox, return_xml, i)
    \/ call.pc = "send" /\ \E result \in ServerResults(call.cls) : SendRequest(result)
    \/ HandleResponse /\ UNCHANGED known
    \/ /\ call.pc = "returned" /\ call.cls = "ShipmentConfirm"
       /\ ExtractDigest(call.ret.response)

Spec == Init /\ [][Next]_vars

-----------------------------------------------------------------------------
(* The claims about the request documents and the request operation        *)

RequestOf(tree) == Children(tree, "Request")

Ended == call.pc \in {"returned", "raised"}

\* C1: every request document a builder has returned still has a Request
\* element that holds exactly RequestAction, RequestOption and
\* TransactionReference, in this order, after every later call of a builder
\* of the same class.
C1_TemplatesStayInEarlierDocuments ==
    \A i \in DOMAIN docs :
        /\ Len(RequestOf(DocTree(docs[i]))) = 1
        /\ RequestOf(DocTree(docs[i]))[1].children =
               <<RequestAction(docs[i].cls), RequestOption(docs[i].cls),
                 TransactionReference(docs[i].cls)>>

\* C4: when the parsed response holds a carrier error node, the call raises a
\* carrier error that carries the full request text that was sent, and
\* returns nothing, whatever return_xml is.
C4_CarrierErrorRaisedWithRequest ==
    (Ended /\ call.result.wellformed /\ HasErrorNode(call.result.tree)) =>
        /\ call.pc = "raised"
        /\ call.error.kind = "CarrierError"
        /\ call.error.request = call.sent_body
        /\ call.error.request # <<>>
        /\ call.ret = NoReturn

C4_Witness ==
    /\ call.pc = "raised"
    /\ call.return_xml
    /\ call.result = Received(ErrorResponse("ShipmentAccept"))
    /\ call.error.kind = "CarrierError"

\* C5: when the response holds no error node, the call returns the parsed
\* response alone if return_xml is false and the pair (request text, parsed
\* response) if it is true, the request text being the text that was passed
\* to send_request.
C5_ReturnsResponseOrPair ==
    (Ended /\ call.result.wellformed /\ ~HasErrorNode(call.result.tree)) =>
        /\ call.pc = "returned"
        /\ call.ret.response = call.result.tree
        /\ call.ret.pair = call.return_xml
        /\ call.ret.request = IF call.return_xml THEN call.sent_body ELSE <<>>
        /\ call.return_xml => call.ret.request # <<>>

C5_Witness ==
    /\ call.pc = "returned"
    /\ call.return_xml
    /\ call.cls = "ShipmentVoid"
    /\ call.ret.pair

\* C6: each call of request performs exactly one send_request in every
\* outcome (success, carrier error, unparsable response), and the send comes
\* before the response is inspected.
C6_ExactlyOneSend ==
    /\ call.pc \in {"idle", "send"} => call.sends = 0
    /\ call.pc \in {"receive", "returned", "raised"} => call.sends = 1

C6_Witness ==
    /\ call.pc = "raised"
    /\ call.error.kind = "XMLSyntaxError"
    /\ call.sends = 1

\* C7: the body passed to send_request is four parts in this order: an XML
\* declaration, the serialized access-credentials document, a second XML
\* declaration, the serialized business document the caller gave.
C7_BodyIsTwoDocuments ==
    call.sends > 0 =>
        /\ Len(call.sent_body) = 4
        /\ call.sent_body[1] = XmlDeclaration
        /\ call.sent_body[2] = tostring(AccessRequest)
        /\ call.sent_body[3] = XmlDeclaration
        /\ call.sent_body[4] = tostring(call.document)
        /\ Head(call.sent_body[2]) = <<"open", "AccessRequest">>
        /\ Head(call.sent_body[4]) = <<"open", call.document.tag>>

C7_Witness ==
    /\ call.sends = 1
    /\ call.cls = "ShipmentConfirm"
    /\ call.document.tag = "ShipmentConfirmRequest"
    /\ Len(call.sent_body[4]) > Len(call.sent_body[2])

C18_FailedCallChangesNothing ==
    [][(/\ built'.op = "shipment_confirm_request_type"
        /\ built'.error = "MissingRequiredField") => docs' = docs]_vars

-----------------------------------------------------------------------------
(* The order of the exchanges: the flow above with one production client   *)
(* of each class, and with the record of the responses returned            *)

OrderConfirmInputs ==
    {Input(ConfirmRequired, {}, Range(ConfirmRequired), DefaultTexts)}

\* The record after request has ended: a returned response is added.
Returned ==
    IF call'.pc = "returned"
    THEN Learn(known, call.cls, call'.ret.response)
    ELSE known

NextOrder ==
    \/ \E c \in OrderConfirmInputs : ShipmentConfirmRequestType(c.args, c.kwargs)
    \/ \E dg \in FlowDigests : ShipmentAcceptRequestType(dg)
    \/ \E t \in FlowTracking : VoidShipmentRequestType(<<"1Z">>, t)
    \/ \E cls \in Classes, i \in DOMAIN docs : Request(cls, FALSE, FALSE, i)
    \/ call.pc = "send" /\ \E result \in ServerResults(call.cls) : SendRequest(result)
    \/ HandleResponse /\ known' = Returned
    \/ /\ call.pc = "returned" /\ call.cls = "ShipmentConfirm"
       /\ ExtractDigest(call.ret.response)

SpecOrder == Init /\ [][NextOrder]_vars

\* The texts of the elements named tag anywhere below e, as a set.
RECURSIVE TextsOf(_, _)
TextsOf(e, tag) ==
    (IF e.tag = tag THEN {e.text} ELSE {})
    \cup UNION {TextsOf(e.children[i], tag) : i \in DOMAIN e.children}

Sent(cls) == call.cls = cls /\ call.sends > 0

\* The responses without an Error node that request has returned for cls.
ReturnedWithoutError(cls) == {r \in known[cls] : ~HasErrorNode(r)}

\* C11 as stated: an accept request is sent only after a confirm request
\* has returned without error, and with the digest of that response; a void
\* request is sent only once an earlier response has told a shipment id and
\* tracking numbers.
C11_ExchangesFollowStateMachine ==
    /\ Sent("ShipmentAccept") =>
           \E r \in ReturnedWithoutError("ShipmentConfirm") :
               /\ TextsOf(r, "ShipmentDigest") # {}
               /\ TextsOf(call.document, "ShipmentDigest")
                      = TextsOf(r, "ShipmentDigest")
    /\ Sent("ShipmentVoid") =>
           \E r \in ReturnedWithoutError("ShipmentAccept") :
               /\ TextsOf(r, "ShipmentIdentificationNumber") # {}
               /\ TextsOf(r, "TrackingNumber") # {}

\* C11, amended: the clients keep no state of a shipment and send whatever
\* document they are given; what holds is the caller's side of the flow: a
\* response handed to extract_digest is one that ShipmentConfirm.request has
\* returned, and it holds no Error node, so that an accept request built from
\* the extracted digest follows a confirm exchange without error.
C11_ExtractedDigestFollowsConfirm ==
    digest.state # "none" =>
        digest.of \in ReturnedWithoutError("ShipmentConfirm")

\* An accept request was sent with the digest extracted from a confirm
\* response.
C11_Witness ==
    /\ Sent("ShipmentAccept")
    /\ digest.state = "value"
    /\ TextsOf(call.document, "ShipmentDigest") = {digest.value.text}
    /\ TextsOf(digest.of, "ShipmentDigest") = {digest.value.text}

-----------------------------------------------------------------------------
(* ShipmentMixin: the element builders                                     *)

\* elements = cls.make_elements(required, args, kwargs); return E.<tag>(*elements)
ElementOf(tag, required, args, kwargs) ==
    LET elements == make_elements(required, args, kwargs) IN
    IF elements.error # "" THEN elements
    ELSE Ok(Node(tag, <<>>, elements.value))

ShipperRequired == <<>>

shipper_type(args, kwargs) == ElementOf("Shipper", ShipperRequired, args, kwargs)

ShipToRequired == <<>>

ship_to_type(args, kwargs) == ElementOf("ShipTo", ShipToRequired, args, kwargs)

ShipFromRequired == <<>>

ship_from_type(args, kwargs) ==
    ElementOf("ShipFrom", ShipFromRequired, args, kwargs)

AddressRequired == <<"AddressLine1", "City">>

address_type(args, kwargs) == ElementOf("Address", AddressRequired, args, kwargs)

\* data = dict((e.tag, e.text) for e in elements): the text of the last
\* element of each tag.
TextOfTag(elements, tag) ==
    LET found == SelectSeq(elements, LAMBDA e : e.tag = tag) IN
    found[Len(found)].text

\* A variant of AddressWarns that takes no notice of the country.
AddressWarns_AnyCountry(args, kwargs) ==
    LET elements == make_elements(AddressRequired, args, kwargs) IN
    /\ elements.error = ""
    /\ "CountryCode" \in Tags(elements.value)
    /\ "StateProviceCode" \in Tags(elements.value)

\* The warning of address_type: a StateProviceCode with a CountryCode that is
\* neither US nor CA.
AddressWarns(args, kwargs) ==
    LET elements == make_elements(AddressRequired, args, kwargs) IN
    /\ elements.error = ""
    /\ "CountryCode" \in Tags(elements.value)
    /\ "StateProviceCode" \in Tags(elements.value)
    /\ TextOfTag(elements.value, "CountryCode") \notin {<<"US">>, <<"CA">>}

PhoneRequired == <<"Number">>

ship_phone_type(args, kwargs) == ElementOf("Phone", PhoneRequired, args, kwargs)

PackageRequired == <<"PackagingType", "PackageWeight">>

package_type(args, kwargs) == ElementOf("Package", PackageRequired, args, kwargs)

ServiceRequired == <<"Code">>

service_type(args, kwargs) == ElementOf("Service", ServiceRequired, args, kwargs)

PackagingRequired == <<"Code">>

packaging_type(args, kwargs) ==
    ElementOf("PackagingType", PackagingRequired, args, kwargs)

PackageWeightRequired == <<>>

package_weight_type(Weight, args, kwargs) ==
    LET elements == make_elements(PackageWeightRequired, args, kwargs) IN
    IF elements.error # "" THEN elements
    ELSE Ok(Node("PackageWeight", <<>>,
                 <<Node("UnitOfMeasurement", <<>>, elements.value),
                   Leaf("Weight", Weight)>>))

PackageServiceOptionsRequired == <<"InsuredValue">>

package_service_options_type(args, kwargs) ==
    ElementOf("PackageServiceOptions", PackageServiceOptionsRequired, args, kwargs)

InsuredValueRequired == <<"MonetaryValue">>

insured_value_type(args, kwargs) ==
    ElementOf("InsuredValue", InsuredValueRequired, args, kwargs)

PrepaidRequired == <<"AccountNumber">>

payment_information_prepaid_type(args, kwargs) ==
    LET elements == make_elements(PrepaidRequired, args, kwargs) IN
    IF elements.error # "" THEN elements
    ELSE Ok(Node("Prepaid", <<>>, <<Node("BillShipper", <<>>, elements.value)>>))

\* uom_dict = {'Code': kwargs['Code'], 'Description': kwargs.get('Description', "")}
UomDict(kwargs) ==
    <<Pair("Code", ValueAt(kwargs, "Code")),
      Pair("Description", IF "Description" \in Keys(kwargs)
                          THEN ValueAt(kwargs, "Description")
                          ELSE TextVal(<<>>))>>

\* The first of keys that kwargs lacks, in the order the body reads them.
MissingKey(keys, kwargs) ==
    LET missing == {i \in DOMAIN keys : keys[i] \notin Keys(kwargs)} IN
    IF missing = {} THEN "" ELSE keys[FirstOf(missing)]

DimensionsKeys == <<"Code", "Length", "Width", "Height">>

\* The positional arguments are not read.
dimensions_type(args, kwargs) ==
    IF MissingKey(DimensionsKeys, kwargs) # ""
    THEN Raise("KeyError", MissingKey(DimensionsKeys, kwargs))
    ELSE LET elements == make_elements(<<"Code">>, <<>>, UomDict(kwargs)) IN
         IF elements.error # "" THEN elements
         ELSE Ok(Node("Dimensions", <<>>,
                      <<Node("UnitOfMeasurement", <<>>, elements.value),
                        E("Length", ValueAt(kwargs, "Length")),
                        E("Width", ValueAt(kwargs, "Width")),
                        E("Height", ValueAt(kwargs, "Height"))>>))

ShipmentServiceOptionsRequired == <<>>

shipment_service_option_type(args, kwargs) ==
    ElementOf("ShipmentServiceOptions", ShipmentServiceOptionsRequired,
              args, kwargs)

rate_information_type(negotiated, rate_chart) ==
    Ok(Node("RateInformation", <<>>,
            (IF negotiated THEN <<Leaf("NegotiatedRatesIndicator", <<>>)>> ELSE <<>>)
            \o (IF rate_chart THEN <<Leaf("RateChartIndicator", <<>>)>> ELSE <<>>)))

payment_information_type(method) ==
    Ok(Node("PaymentInformation", <<>>, <<method>>))

\* The decorator of base.py: the decorated builder raises, whatever it is
\* called with.
not_implemented_yet(tag, args, kwargs) == Raise("UnsupportedFeature", "")

\* A variant of credit_card_type without its decorator: the body, pass, is
\* run and the call returns None.
credit_card_type_Undecorated(args, kwargs) == Ok(NullNode)

credit_card_type(args, kwargs) == not_implemented_yet("CreditCard", args, kwargs)

sold_to_type(args, kwargs) == not_implemented_yet("SoldTo", args, kwargs)

-----------------------------------------------------------------------------
(* The element builders, as calls.  The builders are class methods that    *)
(* read nothing but their arguments, so one call from the initial state    *)
(* shows all a call can do.                                                *)

Builds(op, args, kwargs, outcome) ==
    /\ built' = Called(op, args, kwargs, outcome)
    /\ UNCHANGED <<docs, call, canned, digest, known, threads>>

ShipperType(args, kwargs) ==
    Builds("shipper_type", args, kwargs, shipper_type(args, kwargs))

ShipToType(args, kwargs) ==
    Builds("ship_to_type", args, kwargs, ship_to_type(args, kwargs))

ShipFromType(args, kwargs) ==
    Builds("ship_from_type", args, kwargs, ship_from_type(args, kwargs))

AddressType(args, kwargs) ==
    /\ built' = [Called("address_type", args, kwargs, address_type(args, kwargs))
                    EXCEPT !.warned = AddressWarns(args, kwargs)]
    /\ UNCHANGED <<docs, call, canned, digest, known, threads>>

ShipPhoneType(args, kwargs) ==
    Builds("ship_phone_type", args, kwargs, ship_phone_type(args, kwargs))

PackageType(args, kwargs) ==
    Builds("package_type", args, kwargs, package_type(args, kwargs))

ServiceType(args, kwargs) ==
    Builds("service_type", args, kwargs, service_type(args, kwargs))

PackagingType(args, kwargs) ==
    Builds("packaging_type", args, kwargs, packaging_type(args, kwargs))

PackageWeightType(Weight, args, kwargs) ==
    Builds("package_weight_type", args, kwargs,
           package_weight_type(Weight, args, kwargs))

PackageServiceOptionsType(args, kwargs) ==
    Builds("package_service_options_type", args, kwargs,
           package_service_options_type(args, kwargs))

InsuredValueType(args, kwargs) ==
    Builds("insured_value_type", args, kwargs, insured_value_type(args, kwargs))

PaymentInformationPrepaidType(args, kwargs) ==
    Builds("payment_information_prepaid_type", args, kwargs,
           payment_information_prepaid_type(args, kwargs))

LabelSpecificationType(args, kwargs) ==
    Builds("label_specification_type", args, kwargs,
           label_specification_type(args, kwargs))

DimensionsType(args, kwargs) ==
    Builds("dimensions_type", args, kwargs, dimensions_type(args, kwargs))

ShipmentServiceOptionType(args, kwargs) ==
    Builds("shipment_service_option_type", args, kwargs,
           shipment_service_option_type(args, kwargs))

RateInformationType(negotiated, rate_chart) ==
    Builds("rate_information_type", <<>>,
           <<Pair("negotiated", negotiated), Pair("rate_chart", rate_chart)>>,
           rate_information_type(negotiated, rate_chart))

PaymentInformationType(method) ==
    Builds("payment_information_type", <<method>>, <<>>,
           payment_information_type(method))

LabelPrintMethodType(args, kwargs) ==
    Builds("label_print_method_type", args, kwargs,
           label_print_method_type(args, kwargs))

LabelImageFormatType(args, kwargs) ==
    Builds("label_image_format_type", args, kwargs,
           label_image_format_type(args, kwargs))

CreditCardType(args, kwargs) ==
    Builds("credit_card_type", args, kwargs, credit_card_type(args, kwargs))

SoldToType(args, kwargs) ==
    Builds("sold_to_type", args, kwargs, sold_to_type(args, kwargs))

\* The fields each builder documents.
ShipperFields ==
    <<"Name", "ShipperNumber", "AttentionName", "TaxIdentificationNumber",
      "PhoneNumber", "FaxNumber", "EMailAddress", "Address", "LocationID">>

ShipToFields ==
    <<"CompanyName", "AttentionName", "TaxIdentificationNumber", "PhoneNumber",
      "FaxNumber", "EMailAddress", "Address", "LocationID",
      "ResidentialAddressIndicator">>

ShipFromFields ==
    <<"CompanyName", "AttentionName", "TaxIdentificationNumber", "PhoneNumber",
      "FaxNumber", "EMailAddress", "Address">>

AddressFields ==
    <<"AddressLine1", "AddressLine2", "AddressLine3", "City",
      "StateProviceCode", "CountryCode">>

CountryCodes == {<<"US">>, <<"CA">>, <<"DE">>}

PhoneFields == <<"Number", "Extension">>

PackageFields ==
    <<"PackagingType", "Description", "PackageWeight", "Dimensions",
      "PackageServiceOptions">>

CodeFields == <<"Code", "Description">>

PackageServiceOptionsFields == <<"InsuredValue">>

InsuredValueFields == <<"CurrencyCode", "MonetaryValue">>

PrepaidFields == <<"AccountNumber">>

LabelSpecificationFields == <<"LabelPrintMethod", "LabelImageFormat">>

DimensionsFields == <<"Code", "Description", "Length", "Width", "Height">>

ShipmentServiceOptionsFields == <<"SaturdayDelivery">>

\* No parameter is documented for credit_card_type and sold_to_type; these
\* are the fields of the elements they stand for.
CreditCardFields == <<"Number", "Address">>

SoldToFields == <<"CompanyName", "Address">>

ConfirmFields ==
    <<"Shipper", "ShipTo", "ShipFrom", "Service", "PaymentInformation",
      "ShipmentServiceOptions", "LabelSpecification", "Description">>

InitBuild == Init

\* No builder has been called yet.
Fresh == built = NoCall

NextBuild ==
    \/ \E c \in Inputs(ShipperFields) : Fresh /\ ShipperType(c.args, c.kwargs)
    \/ \E c \in Inputs(ShipToFields) : Fresh /\ ShipToType(c.args, c.kwargs)
    \/ \E c \in Inputs(ShipFromFields) : Fresh /\ ShipFromType(c.args, c.kwargs)
    \/ \E cc \in CountryCodes :
          \E c \in InputsWith(AddressFields,
                              [DefaultTexts EXCEPT !["CountryCode"] = cc]) :
             Fresh /\ AddressType(c.args, c.kwargs)
    \/ \E c \in Inputs(PhoneFields) : Fresh /\ ShipPhoneType(c.args, c.kwargs)
    \/ \E c \in Inputs(PackageFields) : Fresh /\ PackageType(c.args, c.kwargs)
    \/ \E c \in Inputs(CodeFields) : Fresh /\ ServiceType(c.args, c.kwargs)
    \/ \E c \in Inputs(CodeFields) : Fresh /\ PackagingType(c.args, c.kwargs)
    \/ \E c \in Inputs(CodeFields) :
          Fresh /\ PackageWeightType(<<"10">>, c.args, c.kwargs)
    \/ \E c \in Inputs(PackageServiceOptionsFields) :
          Fresh /\ PackageServiceOptionsType(c.args, c.kwargs)
    \/ \E c \in Inputs(InsuredValueFields) :
          Fresh /\ InsuredValueType(c.args, c.kwargs)
    \/ \E c \in Inputs(PrepaidFields) :
          Fresh /\ PaymentInformationPrepaidType(c.args, c.kwargs)
    \/ \E c \in Inputs(LabelSpecificationFields) :
          Fresh /\ LabelSpecificationType(c.args, c.kwargs)
    \/ \E c \in Inputs(ConfirmFields) :
          Fresh /\ ShipmentConfirmRequestType(c.args, c.kwargs)
    \/ \E c \in Inputs(DimensionsFields) :
          Fresh /\ DimensionsType(c.args, c.kwargs)
    \/ \E c \in Inputs(ShipmentServiceOptionsFields) :
          Fresh /\ ShipmentServiceOptionType(c.args, c.kwargs)
    \/ \E negotiated \in BOOLEAN, rate_chart \in BOOLEAN :
          Fresh /\ RateInformationType(negotiated, rate_chart)
    \/ \E method \in {SampleElement("Prepaid", DefaultTexts)} :
          Fresh /\ PaymentInformationType(method)
    \/ \E c \in Inputs(CodeFields) :
          Fresh /\ LabelPrintMethodType(c.args, c.kwargs)
    \/ \E c \in Inputs(CodeFields) :
          Fresh /\ LabelImageFormatType(c.args, c.kwargs)
    \/ \E c \in Inputs(CreditCardFields) :
          Fresh /\ CreditCardType(c.args, c.kwargs)
    \/ \E c \in Inputs(SoldToFields) : Fresh /\ SoldToType(c.args, c.kwargs)
    \/ \E shipment_id \in {<<"1Z">>, <<"1Z", "9">>}, n \in 0..MaxTracking :
          \E tracking_ids \in [1..n -> {<<"1Z1">>, <<"1Z2">>}] :
             Fresh /\ VoidShipmentRequestType(shipment_id, tracking_ids)

SpecBuild == InitBuild /\ [][NextBuild]_vars

-----------------------------------------------------------------------------
(* The claims about required fields                                        *)

\* The required list each builder passes to make_elements, as the claim
\* gives it.
C2_Required ==
    {<<"address_type", "AddressLine1">>, <<"address_type", "City">>,
     <<"ship_phone_type", "Number">>,
     <<"package_type", "PackagingType">>, <<"package_type", "PackageWeight">>,
     <<"service_type", "Code">>, <<"packaging_type", "Code">>,
     <<"package_service_options_type", "InsuredValue">>,
     <<"insured_value_type", "MonetaryValue">>,
     <<"payment_information_prepaid_type", "AccountNumber">>,
     <<"label_specification_type", "LabelPrintMethod">>,
     <<"shipment_confirm_request_type", "Shipper">>,
     <<"shipment_confirm_request_type", "ShipTo">>,
     <<"shipment_confirm_request_type", "ShipFrom">>,
     <<"shipment_confirm_request_type", "Service">>,
     <<"shipment_confirm_request_type", "PaymentInformation">>}

\* C2: a builder fails with a missing-required-field error and returns no
\* element when a name of the required list it passes to make_elements is
\* supplied neither positionally nor by keyword.
C2_MissingRequiredFieldRaises ==
    \A p \in C2_Required :
        (built.op = p[1] /\ p[2] \notin Supplied(built)) =>
            /\ built.error = "MissingRequiredField"
            /\ built.field \notin Supplied(built)
            /\ <<built.op, built.field>> \in C2_Required
            /\ built.result = NullNode
            /\ docs = <<>>

C2_Witness ==
    /\ built.op = "shipment_confirm_request_type"
    /\ Supplied(built) = Range(ConfirmFields) \ {"PaymentInformation"}
    /\ built.error = "MissingRequiredField"
    /\ built.field = "PaymentInformation"

\* The fields the builders document as (Required).
C3_Documented ==
    {<<"shipper_type", "Name">>, <<"shipper_type", "ShipperNumber">>,
     <<"shipper_type", "AttentionName">>,
     <<"shipper_type", "TaxIdentificationNumber">>,
     <<"shipper_type", "PhoneNumber">>,
     <<"ship_to_type", "CompanyName">>, <<"ship_to_type", "AttentionName">>,
     <<"ship_to_type", "TaxIdentificationNumber">>,
     <<"ship_from_type", "CompanyName">>, <<"ship_from_type", "AttentionName">>,
     <<"ship_from_type", "TaxIdentificationNumber">>,
     <<"address_type", "CountryCode">>,
     <<"package_weight_type", "Code">>}

\* C3: every field a builder documents as (Required) is enforced: the builder
\* raises a missing-required-field error when the field is omitted.
C3_DocumentedRequiredRaises ==
    \A p \in C3_Documented :
        (built.op = p[1] /\ p[2] \notin Supplied(built)) =>
            /\ built.error = "MissingRequiredField"
            /\ built.result = NullNode

-----------------------------------------------------------------------------
(* The claims about the children of the elements built                     *)

C12_Builder(op, fields, required, defaulted) ==
    [op |-> op, fields |-> fields, required |-> required, defaulted |-> defaulted]

\* The element builders that take fields: their fields, the fields a call
\* cannot do without, and the optional fields that have a default.
\* dimensions_type reads its fields by keyword only.
C12_Builders ==
    {C12_Builder("shipper_type", ShipperFields, ShipperRequired, {}),
     C12_Builder("ship_to_type", ShipToFields, ShipToRequired, {}),
     C12_Builder("ship_from_type", ShipFromFields, ShipFromRequired, {}),
     C12_Builder("address_type", AddressFields, AddressRequired, {}),
     C12_Builder("ship_phone_type", PhoneFields, PhoneRequired, {}),
     C12_Builder("package_type", PackageFields, PackageRequired, {}),
     C12_Builder("service_type", CodeFields, ServiceRequired, {}),
     C12_Builder("packaging_type", CodeFields, PackagingRequired, {}),
     C12_Builder("package_weight_type", CodeFields, PackageWeightRequired, {}),
     C12_Builder("package_service_options_type", PackageServiceOptionsFields,
             PackageServiceOptionsRequired, {}),
     C12_Builder("insured_value_type", InsuredValueFields, InsuredValueRequired, {}),
     C12_Builder("payment_information_prepaid_type", PrepaidFields,
             PrepaidRequired, {}),
     C12_Builder("label_specification_type", LabelSpecificationFields,
             LabelSpecificationRequired, {}),
     C12_Builder("shipment_service_option_type", ShipmentServiceOptionsFields,
             ShipmentServiceOptionsRequired, {}),
     C12_Builder("dimensions_type", DimensionsFields, DimensionsKeys, {}),
     C12_Builder("label_print_method_type", CodeFields, <<>>, {"Code"}),
     C12_Builder("label_image_format_type", CodeFields, <<>>, {"Code"})}

\* The element of the result that holds the children made of the fields.
C12_Holder(c) ==
    IF c.op \in {"package_weight_type", "dimensions_type"}
    THEN c.result.children[1]
    ELSE IF c.op = "payment_information_prepaid_type"
    THEN c.result.children[1]
    ELSE c.result

\* The child a supplied field stands for: the positional element itself, or
\* an element named after the keyword with the supplied text.
SuppliedChild(c, f) ==
    IF f \in Keys(c.kwargs)
    THEN LET v == ValueAt(c.kwargs, f) IN
         IF v.el THEN Node(f, <<>>, <<v.node>>) ELSE Leaf(f, v.text)
    ELSE c.args[CHOOSE i \in DOMAIN c.args : c.args[i].tag = f]

\* C12: a builder called with the fields it cannot do without returns an
\* element that holds exactly one child for each optional field supplied,
\* with the supplied text, and no child for an optional field omitted (a
\* field with a default is looked at only when it is supplied).
C12_OneChildPerSuppliedOptional ==
    \A b \in C12_Builders :
        (/\ built.op = b.op
         /\ Range(b.required) \subseteq Supplied(built)
         /\ b.op = "dimensions_type" => built.args = <<>>) =>
            /\ built.error = ""
            /\ \A f \in Range(b.fields) \ Range(b.required) :
                   IF f \in Supplied(built)
                   THEN Children(C12_Holder(built), f) = <<SuppliedChild(built, f)>>
                   ELSE f \in b.defaulted
                        \/ Children(C12_Holder(built), f) = <<>>

\* C13: address_type, called with AddressLine1 and City, warns exactly when a
\* StateProviceCode is supplied together with a CountryCode other than US and
\* CA; warning or not, it returns the Address element that holds the supplied
\* fields as its children, one each.
C13_WarnsExactlyOutsideUsCa ==
    (built.op = "address_type" /\ Range(AddressRequired) \subseteq Supplied(built)) =>
        /\ built.warned <=>
               /\ "StateProviceCode" \in Supplied(built)
               /\ "CountryCode" \in Supplied(built)
               /\ SuppliedChild(built, "CountryCode").text \notin {<<"US">>, <<"CA">>}
        /\ built.error = ""
        /\ built.result.tag = "Address"
        /\ Len(built.result.children) = Cardinality(Supplied(built))
        /\ \A f \in Supplied(built) :
               Children(built.result, f) = <<SuppliedChild(built, f)>>

\* An address in DE with a StateProviceCode was built, with a warning.
C13_Witness ==
    /\ built.op = "address_type"
    /\ built.warned
    /\ built.error = ""
    /\ Children(built.result, "CountryCode") = <<Leaf("CountryCode", <<"DE">>)>>
    /\ Children(built.result, "StateProviceCode") # <<>>

\* C14: credit_card_type and sold_to_type raise the unsupported-feature error
\* whatever they are called with, and return no element.
C14_UnsupportedFeatureRaised ==
    built.op \in {"credit_card_type", "sold_to_type"} =>
        /\ built.error = "UnsupportedFeature"
        /\ built.result = NullNode
        /\ docs = <<>>

\* credit_card_type was called with a positional element and a keyword.
C14_Witness ==
    /\ built.op = "credit_card_type"
    /\ built.args # <<>>
    /\ built.kwargs # <<>>
    /\ built.error = "UnsupportedFeature"

\* The default label specification: GIF, for the print method and for the
\* image format.
C16_Default ==
    Node("LabelSpecification", <<>>,
         <<Node("LabelPrintMethod", <<>>, <<Leaf("Code", <<"GIF">>)>>),
           Node("LabelImageFormat", <<>>, <<Leaf("Code", <<"GIF">>)>>)>>)

\* C16: a ShipmentConfirmRequest returned has the three children Request,
\* Shipment and LabelSpecification, in this order; its LabelSpecification is
\* the element given by keyword, or the default when none is given by
\* keyword; its Shipment holds no LabelSpecification.
C16_ThreeChildrenLabelOutsideShipment ==
    (built.op = "shipment_confirm_request_type" /\ built.error = "") =>
        /\ [i \in DOMAIN built.result.children |-> built.result.children[i].tag]
               = <<"Request", "Shipment", "LabelSpecification">>
        /\ built.result.children[3]
               = IF "LabelSpecification" \in Keys(built.kwargs)
                 THEN ValueAt(built.kwargs, "LabelSpecification").node
                 ELSE C16_Default
        /\ Children(built.result.children[2], "LabelSpecification") = <<>>

\* C17: void_shipment_request_type(s, t) returns a VoidShipmentRequest whose
\* children are Request and ExpandedVoidShipment; ExpandedVoidShipment holds
\* one ShipmentIdentificationNumber with the text s, then one TrackingNumber
\* for each element of t, in the order of t, duplicates kept.
C17_VoidHoldsIdThenTrackingNumbers ==
    built.op = "void_shipment_request_type" =>
        /\ built.error = ""
        /\ built.result.tag = "VoidShipmentRequest"
        /\ [i \in DOMAIN built.result.children |-> built.result.children[i].tag]
               = <<"Request", "ExpandedVoidShipment">>
        /\ LET s == built.args[1]
               t == built.args[2]
               held == built.result.children[2].children
           IN  /\ Len(held) = 1 + Len(t)
               /\ held[1] = Leaf("ShipmentIdentificationNumber", s)
               /\ \A i \in DOMAIN t : held[i + 1] = Leaf("TrackingNumber", t[i])

\* A void request was built for the same tracking id given twice.
C17_Witness ==
    /\ built.op = "void_shipment_request_type"
    /\ built.error = ""
    /\ Len(built.args[2]) = 2
    /\ built.args[2][1] = built.args[2][2]

-----------------------------------------------------------------------------
(* From the confirm phase to the accept phase: the caller is given a       *)
(* confirm response, extracts its digest and builds the accept request.    *)

DigestTexts == UNION {[1..n -> Symbols] : n \in 1..MaxDigestLen}

InitDigest ==
    /\ docs = <<>>
    /\ built = NoCall
    /\ call = IdleCall
    /\ canned \in {ConfirmResponse(t) : t \in DigestTexts}
    /\ digest = NoDigest
    /\ known = NothingKnown
    /\ threads = NoThreads

NextDigest ==
    \/ digest.state = "none" /\ ExtractDigest(canned)
    \/ /\ digest.state = "value"
       /\ Fresh
       /\ ShipmentAcceptRequestType(digest.value)

SpecDigest == InitDigest /\ [][NextDigest]_vars

DigestTextOf(response) == Children(response, "ShipmentDigest")[1].text

\* C9: for a confirm response whose ShipmentDigest element has the text d,
\* extract_digest returns exactly the string d, also when d reads as a number
\* or as a boolean.
C9_DigestIsTheText ==
    (digest.state # "none" /\ Children(digest.of, "ShipmentDigest") # <<>>) =>
        /\ digest.state = "value"
        /\ digest.value = StrVal(DigestTextOf(digest.of))

\* C10: for a confirm response with the digest text d,
\* shipment_accept_request_type(extract_digest(response)) succeeds and returns
\* a ShipmentAcceptRequest whose children are Request and one ShipmentDigest
\* with the text d.
C10_DigestPassedToAccept ==
    (/\ built.op = "shipment_accept_request_type"
     /\ digest.state = "value"
     /\ built.args = <<digest.value>>) =>
        /\ built.error = ""
        /\ built.result.tag = "ShipmentAcceptRequest"
        /\ Len(built.result.children) = 2
        /\ built.result.children[1].tag = "Request"
        /\ built.result.children[2] =
               Leaf("ShipmentDigest", DigestTextOf(digest.of))

-----------------------------------------------------------------------------
(* Two threads, each building a request document with the same client      *)
(* class and sending it.  A thread holds the document its builder call     *)
(* returned (its place in docs, and the tree as it was returned); request  *)
(* serializes the document as it is when tostring runs.                    *)

Threads == {1, 2}

\* The text that tells the shipment of thread t from the other one.
ThreadText(t) == IF t = 1 THEN <<"t1">> ELSE <<"t2">>

\* The builder calls thread t may make on the class cls, as their results.
ThreadCalls(ds, cls, t) ==
    CASE cls = "ShipmentConfirm" ->
           {shipment_confirm_request_type(ds, c.args, c.kwargs) :
               c \in {Input(ConfirmFields, {},
                            Range(ConfirmRequired) \cup {"Description"} \cup o,
                            [DefaultTexts EXCEPT !["Description"] = ThreadText(t)]) :
                         o \in SUBSET {"ShipmentServiceOptions"}}}
      [] cls = "ShipmentAccept" ->
           {shipment_accept_request_type(ds, StrVal(<<a>> \o ThreadText(t))) :
               a \in {"a", "e"}}
      [] cls = "ShipmentVoid" ->
           {void_shipment_request_type(ds, ThreadText(t), tr) :
               tr \in {<<>>, << <<"1Z1">> >>}}

\* Thread t calls the builder of cls, the class the other thread uses.
ThreadBuilds(t, cls) ==
    /\ threads[t].pc = "idle"
    /\ \A u \in Threads : threads[u].pc # "idle" => docs[threads[u].doc].cls = cls
    /\ \E r \in ThreadCalls(docs, cls, t) :
          /\ docs' = r.docs
          /\ threads' = [threads EXCEPT ![t] =
                             [@ EXCEPT !.pc = "built", !.doc = Len(r.docs),
                                       !.returned = r.outcome.value]]
    /\ UNCHANGED <<built, call, canned, digest, known>>

\* request, up to send_request: the document is serialized as it is now.
ThreadSerializes(t) ==
    /\ threads[t].pc = "built"
    /\ threads' = [threads EXCEPT ![t] =
                       [@ EXCEPT !.pc = "serialized",
                                 !.body = FullRequest(AccessRequest,
                                              DocTree(docs[threads[t].doc]))]]
    /\ UNCHANGED <<docs, built, call, canned, digest, known>>

\* send_request(self.url, full_request): the body is on its way.
ThreadSends(t) ==
    /\ threads[t].pc = "serialized"
    /\ threads' = [threads EXCEPT ![t] = [@ EXCEPT !.pc = "sent"]]
    /\ UNCHANGED <<docs, built, call, canned, digest, known>>

NextThreads ==
    \/ \E t \in Threads, cls \in Classes : ThreadBuilds(t, cls)
    \/ \E t \in Threads : ThreadSerializes(t)
    \/ \E t \in Threads : ThreadSends(t)

SpecThreads == Init /\ [][NextThreads]_vars

\* C15: the body a thread has sent is the serialization of the credentials
\* and of the document the thread's builder call returned, whose Request
\* element holds RequestAction, RequestOption and TransactionReference,
\* whatever the other thread did in between.
C15_EachBodyHoldsItsDocument ==
    \A t \in Threads :
        threads[t].pc = "sent" =>
            /\ threads[t].body = FullRequest(AccessRequest, threads[t].returned)
            /\ \E r \in Range(threads[t].returned.children) :
                   /\ r.tag = "Request"
                   /\ [i \in DOMAIN r.children |-> r.children[i].tag]
                          = TemplateNames

====
